---- MODULE Spec2Model ----
(***************************************************************************)
(* AutoMoLi (apps/automoli/automoli.py): the occupancy-driven lighting     *)
(* controller of one room.  The model follows the AppDaemon app: its       *)
(* configuration (self.args), the active daytime (self.active), the        *)
(* lights_off timer handle (self._handle), the scheduler's pending         *)
(* timers, the lights and the fade tasks in flight.                        *)
(*                                                                         *)
(* Times of day are minutes since midnight; fade durations are tenths of   *)
(* a second (the step interval adjFrequency = 0.2 s is 2 tenths).          *)
(***************************************************************************)
EXTENDS Integers, Sequences, FiniteSets, Bags, TLC

(***************************************************************************)
(* Bounds of the model                                                     *)
(***************************************************************************)
\* handles the scheduler can hand out (a handle is reused once it is free)
MaxTimers == 3
\* fade tasks in flight at one time
MaxTasks == 2
\* length of a daytime list in the start-up resolution specification
MaxDaytimes == 4
\* length of a list of disable rules
MaxRules == 2

(***************************************************************************)
(* Program constants                                                       *)
(***************************************************************************)
DEFAULT_LIGHT_SETTING == 100
DEFAULT_DELAY == 150
\* DEFAULT_FADE_DURATION = 3 seconds, in tenths of a second
DEFAULT_FADE_DURATION == 30
\* adjFrequency = 0.2 seconds, in tenths of a second
adjFrequency == 2
\* minutes of a day (the wrap of now_is_between)
Day == 1440
\* full brightness on the 0..255 scale of fade
FullBrightness == 255

\* self._handle = None
NoHandle == 0
\* Python's None as the value of an absent attribute
PyNone == "<None>"
\* a daytime key that is not given in the configuration
Absent == -1

(***************************************************************************)
(* Entities of the room                                                    *)
(***************************************************************************)
Lights == <<"light.a">>
MotionSensors == <<"binary_sensor.motion_sensor_1", "binary_sensor.motion_sensor_2">>
HumiditySensors == <<"sensor.humidity_1", "sensor.humidity_2">>
IlluminanceSensors == <<"sensor.illumination_1">>
\* lights whose is_hue_group attribute is set
HueLights == {}

Range(seq) == {seq[i] : i \in 1..Len(seq)}

\* states a sensor reports; "unavailable" is what float() cannot parse
Readings == {"40", "70", "unavailable"}
\* a reading that was not taken by the handler
Unread == "-"

\* float(self.get_state(sensor)): the number, or -1 for a ValueError
ValueError == -1
Float(str) ==
    CASE str = "40" -> 40
      [] str = "70" -> 70
      [] OTHER -> ValueError

(***************************************************************************)
(* Light settings and daytimes                                             *)
(***************************************************************************)
IntSetting(n) == [kind |-> "int", val |-> n, name |-> ""]
StrSetting(s) == [kind |-> "str", val |-> 0, name |-> s]
AbsentSetting == [kind |-> "absent", val |-> 0, name |-> ""]

\* self.active = {}
NoActive ==
    [daytime |-> "", delay |-> 0, starttime |-> Absent,
     light_setting |-> AbsentSetting, is_hue_group |-> FALSE]

\* DEFAULT_DAYTIMES, with a delay of 0 for "day", a scene for "evening"
DefaultDaytimes ==
    << [name |-> "morning", starttime |-> 330, delay |-> Absent, light |-> IntSetting(100)],
       [name |-> "day", starttime |-> 450, delay |-> 0, light |-> IntSetting(100)],
       [name |-> "evening", starttime |-> 1230, delay |-> Absent, light |-> StrSetting("scene.evening")],
       [name |-> "night", starttime |-> 1350, delay |-> Absent, light |-> IntSetting(0)] >>

\* start times and clock readings of the start-up resolution
StartTimes == {330, 450, 1230, 1350}
Times == {300, 330, 360, 450, 1230, 1380}

StartsWithScene(s) == s = "scene.evening"

(***************************************************************************)
(* build_daytimes: the start-up resolution of the active daytime           *)
(***************************************************************************)
\* daytime.get(key, default)
GetOr(v, default) == IF v = Absent THEN default ELSE v

\* the dict build_daytimes makes of one configured daytime
DaytimeDict(dt) ==
    LET setting == IF dt.light.kind = "absent"
                   THEN IntSetting(DEFAULT_LIGHT_SETTING) ELSE dt.light
    IN [daytime |-> dt.name,
        delay |-> GetOr(dt.delay, DEFAULT_DELAY),
        starttime |-> dt.starttime,
        light_setting |-> setting,
        is_hue_group |-> /\ setting.kind = "str"
                         /\ ~StartsWithScene(setting.name)
                         /\ \E l \in Range(Lights) : l \in HueLights]

\* now_is_between(start, end) of the AppDaemon scheduler: both ends are
\* included, and an end before the start means the span crosses midnight
NowIsBetween(start, end, now) ==
    IF end < start
    THEN LET now2 == IF now < start /\ now < end THEN now + Day ELSE now
         IN start <= now2 /\ now2 <= end + Day
    ELSE start <= now /\ now <= end

\* the loop of build_daytimes from index idx on; acc is the state it carries:
\* the daytime made active so far, the start times seen, a raised ValueError
RECURSIVE BuildLoop(_, _, _, _)
BuildLoop(daytimes, idx, now, acc) ==
    IF idx > Len(daytimes) \/ acc.err THEN acc
    ELSE LET dt == daytimes[idx]
             next_dt_start == daytimes[(idx % Len(daytimes)) + 1].starttime
         IN IF dt.starttime \in acc.starttimes
            THEN [acc EXCEPT !.err = TRUE]
            ELSE BuildLoop(daytimes, idx + 1, now,
                    [acc EXCEPT
                       !.starttimes = @ \cup {dt.starttime},
                       !.active = IF NowIsBetween(dt.starttime, next_dt_start, now)
                                  THEN DaytimeDict(dt) ELSE @])

build_daytimes(daytimes, now) ==
    BuildLoop(daytimes, 1, now,
              [active |-> NoActive, starttimes |-> {}, err |-> FALSE])

(***************************************************************************)
(* eval_disable_switch_conf: one line of disable_switch_entity             *)
(***************************************************************************)
\* self.get_state(entity, att): the attribute, None when it is absent
GetAttr(ent, att) == IF att \in DOMAIN ent.attr THEN ent.attr[att] ELSE PyNone

\* eval_disable_switch_conf that needs every attribute condition to hold
eval_disable_switch_conf_All(conf, ents) ==
    IF ents[conf.entity].state = conf.state
    THEN \A i \in 1..Len(conf.atts) :
             LET currAtt == GetAttr(ents[conf.entity], conf.atts[i].att)
             IN \/ currAtt = conf.atts[i].val
                \/ (currAtt = PyNone /\ conf.atts[i].val = "None")
    ELSE FALSE

\* conf is the split line: the entity, its disabling state and the
\* attribute conditions; ents gives each entity's state and attributes
eval_disable_switch_conf(conf, ents) ==
    IF ents[conf.entity].state = conf.state
    THEN LET attCond ==
               \/ Len(conf.atts) = 0
               \/ \E i \in 1..Len(conf.atts) :
                     LET currAtt == GetAttr(ents[conf.entity], conf.atts[i].att)
                     IN \/ currAtt = conf.atts[i].val
                        \/ (currAtt = PyNone /\ conf.atts[i].val = "None")
         IN attCond
    ELSE FALSE

\* the loop over self.disable_switch_entity that opens motion_event and
\* lights_off: TRUE when the handler returns at once
Disabled(rules, ents) ==
    \E i \in 1..Len(rules) : eval_disable_switch_conf(rules[i], ents)

(***************************************************************************)
(* fade: the brightness commands of one fade task                          *)
(***************************************************************************)
\* int(math.ceil(num / den)) for den > 0
CeilDiv(num, den) == -((-num) \div den)

\* int(targetBrightnessPct * 255 / 100)
TargetBrightness(pct) == (pct * 255) \div 100

\* step: the difference to cover divided by adjPoints = duration / 0.2
FadeStep(initBrightness, direction, pct, duration) ==
    LET diff100 == IF direction = "up"
                   THEN pct * 255 - 100 * initBrightness
                   ELSE -100 * initBrightness
    IN CeilDiv(diff100 * adjFrequency, 100 * duration)

\* range(start, stop, step) for step # 0
RECURSIVE PyRange(_, _, _)
PyRange(start, stop, step) ==
    IF (step > 0 /\ start < stop) \/ (step < 0 /\ start > stop)
    THEN <<start>> \o PyRange(start + step, stop, step)
    ELSE <<>>

\* the brightness of every homeassistant/turn_on call of fade, in order;
\* brightness is the attribute read at the start, None for a light that is off
\* fade that ends on the percentage instead of the 0..255 brightness
FadeCommands_Pct(brightness, direction, pct, duration) ==
    LET initBrightness == IF brightness = Absent THEN 0 ELSE brightness
        step == FadeStep(initBrightness, direction, pct, duration)
        loop == IF step # 0
                THEN PyRange(initBrightness, TargetBrightness(pct), step)
                ELSE <<>>
    IN Append(loop, pct)

FadeCommands(brightness, direction, pct, duration) ==
    LET initBrightness == IF brightness = Absent THEN 0 ELSE brightness
        step == FadeStep(initBrightness, direction, pct, duration)
        loop == IF step # 0
                THEN PyRange(initBrightness, TargetBrightness(pct), step)
                ELSE <<>>
    IN Append(loop, TargetBrightness(pct))

(***************************************************************************)
(* The state of the app                                                    *)
(***************************************************************************)
VARIABLES
    pc,       \* "boot" before initialize, "run" after it, "failed" if it raised
    args,     \* self.args: the configuration of the room
    active,   \* self.active: the active daytime
    handle,   \* self._handle: the handle of the lights_off timer
    timers,   \* the scheduler's pending run_in timers: [id, delay]
    tasks,    \* the bag of fade tasks created and not yet finished
    light,    \* the brightness of each light, 0 when it is off
    motion,   \* the state of each motion sensor
    last      \* the step taken last: the handler, what it read and what it did

vars == <<pc, args, active, handle, timers, tasks, light, motion, last>>

\* the state a handler works on: the fields it may write, its inputs (in),
\* the readings it took (seen), the humidity sensor lights_off found blocking
\* (blocker), whether lights_off launched its fade-down while a fade-up was
\* still in flight (raced), the services and scheduler calls it made
\* (ops, by name), whether a disable
\* rule made it return (vetoed), whether it raised (err), and whether it left
\* the bounds of the model (over)
NoSeen == [hum |-> [x \in Range(HumiditySensors) |-> Unread],
           illum |-> [x \in Range(IlluminanceSensors) |-> Unread]]

Self(in) ==
    [args |-> args, active |-> active, handle |-> handle, timers |-> timers,
     tasks |-> tasks, light |-> light, motion |-> motion, in |-> in,
     seen |-> NoSeen, blocker |-> PyNone, ops |-> {}, vetoed |-> FALSE,
     raced |-> FALSE, err |-> FALSE, over |-> FALSE]

TimerIds(ts) == {t.id : t \in ts}

\* self.get_state(light) == "on"
IsOn(s, l) == s.light[l] > 0
AnyLightOn(s) == \E l \in Range(Lights) : IsOn(s, l)

(***************************************************************************)
(* The scheduler: cancel_timer and run_in                                  *)
(***************************************************************************)
\* cancelling None, a fired or a cancelled handle does nothing
cancel_timer(s, h) ==
    [s EXCEPT !.timers = {t \in @ : t.id # h},
              !.ops = @ \cup {"cancel_timer"}]

\* run_in whose handle is not kept
run_in_Forgets(s, delay) ==
    LET free == {i \in 1..MaxTimers : i \notin TimerIds(s.timers) /\ i # s.handle}
    IN IF free = {} THEN [s EXCEPT !.over = TRUE]
       ELSE LET id == CHOOSE i \in free : \A j \in free : i <= j
            IN [s EXCEPT !.timers = @ \cup {[id |-> id, delay |-> delay]},
                         !.ops = @ \cup {"run_in"}]

\* run_in returns a handle that no pending timer and no holder is using
run_in(s, delay) ==
    LET free == {i \in 1..MaxTimers : i \notin TimerIds(s.timers) /\ i # s.handle}
    IN IF free = {} THEN [s EXCEPT !.over = TRUE]
       ELSE LET id == CHOOSE i \in free : \A j \in free : i <= j
            IN [s EXCEPT !.timers = @ \cup {[id |-> id, delay |-> delay]},
                         !.handle = id,
                         !.ops = @ \cup {"run_in"}]

\* refresh_timer without its cancel_timer
refresh_timer_NoCancel(s) ==
    IF s.active = NoActive THEN [s EXCEPT !.err = TRUE]
    ELSE IF s.active.delay # 0 THEN run_in(s, s.active.delay)
    ELSE s

\* refresh_timer without its test of the delay
refresh_timer_AnyDelay(s) ==
    LET c == cancel_timer(s, s.handle)
    IN IF s.active = NoActive THEN [c EXCEPT !.err = TRUE]
       ELSE run_in(c, s.active.delay)

refresh_timer(s) ==
    LET c == cancel_timer(s, s.handle)
    IN IF s.active = NoActive THEN [c EXCEPT !.err = TRUE]
       ELSE IF s.active.delay # 0 THEN run_in(c, s.active.delay)
       ELSE c

(***************************************************************************)
(* Light commands and fade tasks                                           *)
(***************************************************************************)
\* homeassistant/turn_on with a brightness: brightness 0 turns the light off
SetBrightness(s, entity, b) ==
    [s EXCEPT !.light[entity] = b,
              !.ops = @ \cup {"turn_on"}]

\* homeassistant/turn_on of a light, or of a scene that holds the lights
TurnOn(s, item) ==
    [s EXCEPT !.light = [l \in DOMAIN @ |->
                            IF item = l \/ StartsWithScene(item)
                            THEN FullBrightness ELSE @[l]],
              !.ops = @ \cup {"turn_on"}]

HueActivateScene(s, entity, scene) ==
    [s EXCEPT !.light[entity] = FullBrightness,
              !.ops = @ \cup {"hue_activate_scene"}]

\* create_task that first cancels the unfinished fades of the light
create_task_Replacing(s, entity, direction, pct, duration) ==
    [s EXCEPT
        !.tasks = SetToBag({[entity |-> entity, direction |-> direction,
                             pct |-> pct, duration |-> duration,
                             started |-> FALSE, rem |-> <<>>]}),
        !.ops = @ \cup {"fade_" \o direction}]

\* self.create_task(self.fade(entity, direction, targetBrightnessPct, duration))
create_task(s, entity, direction, pct, duration) ==
    IF BagCardinality(s.tasks) >= MaxTasks THEN [s EXCEPT !.over = TRUE]
    ELSE [s EXCEPT
            !.tasks = @ (+) SetToBag({[entity |-> entity, direction |-> direction,
                                       pct |-> pct, duration |-> duration,
                                       started |-> FALSE, rem |-> <<>>]}),
            !.ops = @ \cup {"fade_" \o direction}]

(***************************************************************************)
(* lights_off and lights_on                                                *)
(***************************************************************************)
\* a fade-up task is created and not finished
FadingUp(s) == \E task \in BagToSet(s.tasks) : task.direction = "up"

\* the loop "for entity in self.lights: create_task(fade(entity, ...))"
RECURSIVE FadeLights(_, _, _, _, _)
FadeLights(s, idx, direction, pct, duration) ==
    IF idx > Len(Lights) THEN s
    ELSE FadeLights(create_task(s, Lights[idx], direction, pct, duration),
                    idx + 1, direction, pct, duration)

\* the humidity sensors at or above the threshold, in the configured order
RECURSIVE HumidityBlockers(_, _)
HumidityBlockers(s, idx) ==
    IF idx > Len(HumiditySensors) THEN <<>>
    ELSE LET sensor == HumiditySensors[idx]
             rest == HumidityBlockers(s, idx + 1)
         IN IF Float(s.in.hum[sensor]) >= s.args.humidity_threshold
            THEN <<sensor>> \o rest ELSE rest

\* a pop that takes the head of the list
Pop_First(list) ==
    IF Len(list) = 0 THEN PyNone ELSE list[1]

\* blocker.pop() if blocker else None
Pop(list) ==
    IF Len(list) = 0 THEN PyNone ELSE list[Len(list)]

\* lights_off without the disable rules
lights_off_NoVeto(s) ==
    LET checked == s.args.humidity_threshold # 0
        s1 == IF checked THEN [s EXCEPT !.seen.hum = s.in.hum] ELSE s
        unparsable == \E x \in Range(HumiditySensors) :
                          Float(s.in.hum[x]) = ValueError
        blocker == IF checked THEN Pop(HumidityBlockers(s, 1)) ELSE PyNone
    IN IF checked /\ unparsable THEN [s1 EXCEPT !.err = TRUE]
       ELSE IF blocker # PyNone
            THEN refresh_timer([s1 EXCEPT !.blocker = blocker])
       ELSE LET c == cancel_timer(s1, s1.handle)
            IN IF AnyLightOn(c)
               THEN FadeLights([c EXCEPT !.raced = FadingUp(c)], 1, "down", 0,
                                 c.args.fade_off)
               ELSE c

\* lights_off that only cancels the timer when a humidity sensor blocks
lights_off_NoRefresh(s) ==
    IF Disabled(s.args.disable_switch_entity, s.in.ents)
    THEN [s EXCEPT !.vetoed = TRUE]
    ELSE
      LET checked == s.args.humidity_threshold # 0
          s1 == IF checked THEN [s EXCEPT !.seen.hum = s.in.hum] ELSE s
          unparsable == \E x \in Range(HumiditySensors) :
                            Float(s.in.hum[x]) = ValueError
          blocker == IF checked THEN Pop(HumidityBlockers(s, 1)) ELSE PyNone
          c == cancel_timer(s1, s1.handle)
      IN IF checked /\ unparsable THEN [s1 EXCEPT !.err = TRUE]
         ELSE IF blocker # PyNone THEN [c EXCEPT !.blocker = blocker]
         ELSE IF AnyLightOn(c)
              THEN FadeLights([c EXCEPT !.raced = FadingUp(c)], 1, "down", 0,
                                 c.args.fade_off)
              ELSE c

lights_off(s) ==
    IF Disabled(s.args.disable_switch_entity, s.in.ents)
    THEN [s EXCEPT !.vetoed = TRUE]
    ELSE
      LET checked == s.args.humidity_threshold # 0
          s1 == IF checked THEN [s EXCEPT !.seen.hum = s.in.hum] ELSE s
          unparsable == \E x \in Range(HumiditySensors) :
                            Float(s.in.hum[x]) = ValueError
          blocker == IF checked THEN Pop(HumidityBlockers(s, 1)) ELSE PyNone
      IN IF checked /\ unparsable THEN [s1 EXCEPT !.err = TRUE]
         ELSE IF blocker # PyNone
            THEN refresh_timer([s1 EXCEPT !.blocker = blocker])
         ELSE LET c == cancel_timer(s1, s1.handle)
              IN IF AnyLightOn(c)
                 THEN FadeLights([c EXCEPT !.raced = FadingUp(c)], 1, "down", 0,
                                 c.args.fade_off)
                 ELSE c

\* the loop over self.lights of a scene setting
RECURSIVE SceneLights(_, _)
SceneLights(s, idx) ==
    IF idx > Len(Lights) THEN s
    ELSE LET entity == Lights[idx]
             setting == s.active.light_setting.name
         IN IF s.active.is_hue_group /\ entity \in HueLights
            THEN SceneLights(HueActivateScene(s, entity, setting), idx + 1)
            ELSE SceneLights(
                   TurnOn(s, IF StartsWithScene(setting) THEN setting ELSE entity),
                   idx + 1)

\* lights_on that blocks only above the illuminance threshold
lights_on_Above(s) ==
    LET checked == s.args.illuminance_threshold # 0
        s1 == IF checked THEN [s EXCEPT !.seen.illum = s.in.illum] ELSE s
        unparsable == \E x \in Range(IlluminanceSensors) :
                          Float(s.in.illum[x]) = ValueError
        blocker == {x \in Range(IlluminanceSensors) :
                       Float(s.in.illum[x]) > s.args.illuminance_threshold}
    IN IF checked /\ (unparsable \/ blocker # {}) THEN s1
       ELSE IF s1.active = NoActive THEN [s1 EXCEPT !.err = TRUE]
       ELSE IF s1.active.light_setting.kind = "str" THEN SceneLights(s1, 1)
       ELSE IF s1.active.light_setting.kind = "int"
            THEN IF s1.active.light_setting.val = 0
                 THEN lights_off(s1)
                 ELSE FadeLights(s1, 1, "up", s1.active.light_setting.val,
                                 s1.args.fade_on)
       ELSE [s1 EXCEPT !.err = TRUE]

\* lights_on that only cancels the timer under a light setting of 0
lights_on_ZeroCancels(s) ==
    LET checked == s.args.illuminance_threshold # 0
        s1 == IF checked THEN [s EXCEPT !.seen.illum = s.in.illum] ELSE s
        unparsable == \E x \in Range(IlluminanceSensors) :
                          Float(s.in.illum[x]) = ValueError
        blocker == {x \in Range(IlluminanceSensors) :
                       Float(s.in.illum[x]) >= s.args.illuminance_threshold}
    IN IF checked /\ (unparsable \/ blocker # {}) THEN s1
       ELSE IF s1.active = NoActive THEN [s1 EXCEPT !.err = TRUE]
       ELSE IF s1.active.light_setting.kind = "str" THEN SceneLights(s1, 1)
       ELSE IF s1.active.light_setting.kind = "int"
            THEN IF s1.active.light_setting.val = 0
                 THEN cancel_timer(s1, s1.handle)
                 ELSE FadeLights(s1, 1, "up", s1.active.light_setting.val,
                                 s1.args.fade_on)
       ELSE [s1 EXCEPT !.err = TRUE]

lights_on(s) ==
    LET checked == s.args.illuminance_threshold # 0
        s1 == IF checked THEN [s EXCEPT !.seen.illum = s.in.illum] ELSE s
        unparsable == \E x \in Range(IlluminanceSensors) :
                          Float(s.in.illum[x]) = ValueError
        blocker == {x \in Range(IlluminanceSensors) :
                       Float(s.in.illum[x]) >= s.args.illuminance_threshold}
    IN IF checked /\ (unparsable \/ blocker # {}) THEN s1
       ELSE IF s1.active = NoActive THEN [s1 EXCEPT !.err = TRUE]
       ELSE IF s1.active.light_setting.kind = "str" THEN SceneLights(s1, 1)
       ELSE IF s1.active.light_setting.kind = "int"
            THEN IF s1.active.light_setting.val = 0
                 THEN lights_off(s1)
                 ELSE FadeLights(s1, 1, "up", s1.active.light_setting.val,
                                 s1.args.fade_on)
       ELSE [s1 EXCEPT !.err = TRUE]

(***************************************************************************)
(* The motion handlers                                                     *)
(***************************************************************************)
\* motion_event that refreshes the timer for every event
motion_event_Refresh(s, event) ==
    IF Disabled(s.args.disable_switch_entity, s.in.ents)
    THEN [s EXCEPT !.vetoed = TRUE]
    ELSE LET s1 == IF ~AnyLightOn(s) THEN lights_on(s) ELSE s
         IN IF s1.err THEN s1 ELSE refresh_timer(s1)

motion_event(s, event) ==
    IF Disabled(s.args.disable_switch_entity, s.in.ents)
    THEN [s EXCEPT !.vetoed = TRUE]
    ELSE LET s1 == IF ~AnyLightOn(s) THEN lights_on(s) ELSE s
         IN IF s1.err THEN s1
            ELSE IF event # "state_changed_detection" THEN refresh_timer(s1)
            ELSE s1

motion_detected(s) ==
    LET s1 == IF s.handle # NoHandle THEN cancel_timer(s, s.handle) ELSE s
    IN motion_event(s1, "state_changed_detection")

\* motion_cleared that starts the timer whatever the other sensors read
motion_cleared_Always(s) ==
    refresh_timer(s)

\* motion_cleared that never starts the timer
motion_cleared_CancelOnly(s) ==
    IF s.handle # NoHandle THEN cancel_timer(s, s.handle) ELSE s

motion_cleared(s) ==
    IF \A sensor \in Range(MotionSensors) :
           s.motion[sensor] = s.args.motion_state_off
    THEN refresh_timer(s)
    ELSE IF s.handle # NoHandle THEN cancel_timer(s, s.handle) ELSE s

(***************************************************************************)
(* Configurations and inputs                                               *)
(***************************************************************************)
\* the line "switch.guard, on" of disable_switch_entity, split
GuardRule == [entity |-> "switch.guard", state |-> "on", atts |-> <<>>]

\* fade_on and fade_off of the room: 0.2 seconds, one step of 0.2 seconds
RoomFade == 2
\* humidity_threshold and illuminance_threshold of the room
RoomThreshold == 70

\* listen_event when neither motion state is configured, listen_state when both are
MotionStates == {[on |-> PyNone, off |-> PyNone], [on |-> "on", off |-> "off"]}

Args(ms, daytimes, humidity, rules) ==
    [motion_state_on |-> ms.on, motion_state_off |-> ms.off,
     daytimes |-> daytimes,
     humidity_threshold |-> humidity,
     illuminance_threshold |-> RoomThreshold,
     disable_switch_entity |-> rules,
     fade_on |-> RoomFade, fade_off |-> RoomFade]

EventMode(a) == a.motion_state_on = PyNone /\ a.motion_state_off = PyNone
StateMode(a) == a.motion_state_on # PyNone /\ a.motion_state_off # PyNone

\* the attributes the disable rules name and the values they can have
AttNames(rules) ==
    UNION {{rules[i].atts[j].att : j \in 1..Len(rules[i].atts)} :
              i \in 1..Len(rules)}
AttValues == {"away", "high"}
\* the attributes of an entity: each named attribute has a value or is absent
Attrs(rules) ==
    UNION {[names -> AttValues] : names \in SUBSET AttNames(rules)}

\* what the handlers read from Home Assistant when they run
Ents == [{"switch.guard"} ->
            [state : {"on", "off"}, attr : Attrs(args.disable_switch_entity)]]
NoEnts == [x \in {"switch.guard"} |-> [state |-> Unread, attr |-> <<>>]]
\* illum and hum say whether the handler can come to read the illuminance and
\* the humidity sensors; a reading that cannot be taken, or that is not taken
\* for want of a threshold, is left out
Inputs(illum, hum) ==
    [ents : Ents,
     hum : IF hum /\ args.humidity_threshold # 0
           THEN [Range(HumiditySensors) -> Readings] ELSE {NoSeen.hum},
     illum : IF illum /\ args.illuminance_threshold # 0
             THEN [Range(IlluminanceSensors) -> Readings] ELSE {NoSeen.illum}]
\* lights_on runs lights_off under an integer light setting of 0
ZeroSetting == active.light_setting.kind = "int" /\ active.light_setting.val = 0
NoInput == [ents |-> NoEnts, hum |-> NoSeen.hum, illum |-> NoSeen.illum]

\* the record of a step that is no handler of the reactive core; now is the
\* clock initialize read; raced stays as the last handler left it
Note(h, ops) ==
    [h |-> h, disabled |-> FALSE, ents |-> NoEnts, seen |-> NoSeen,
     blocker |-> PyNone, ops |-> ops,
     vetoed |-> FALSE, raced |-> last.raced, err |-> FALSE, now |-> Absent]

\* no step was taken yet
NoStep ==
    [h |-> "none", disabled |-> FALSE, ents |-> NoEnts, seen |-> NoSeen,
     blocker |-> PyNone, ops |-> {},
     vetoed |-> FALSE, raced |-> FALSE, err |-> FALSE, now |-> Absent]

\* the record of a handler that ended in state r
Handled(h, r) ==
    [h |-> h, disabled |-> Disabled(r.args.disable_switch_entity, r.in.ents),
     ents |-> r.in.ents, seen |-> r.seen, blocker |-> r.blocker,
     raced |-> r.raced, ops |-> r.ops, vetoed |-> r.vetoed, err |-> r.err,
     now |-> Absent]

\* the handler's writes reach the state
Commit(h, r) ==
    /\ ~r.over
    /\ handle' = r.handle
    /\ timers' = r.timers
    /\ tasks' = r.tasks
    /\ light' = r.light
    /\ motion' = r.motion
    /\ last' = Handled(h, r)
    /\ UNCHANGED <<pc, args, active>>

(***************************************************************************)
(* initialize                                                              *)
(***************************************************************************)
\* the loop over the motion sensors that registers the listeners; with
\* listen_event each sensor also refreshes the timer
RECURSIVE ListenLoop(_, _)
ListenLoop(s, idx) ==
    IF idx > Len(MotionSensors) \/ s.err THEN s
    ELSE IF EventMode(s.args) THEN ListenLoop(refresh_timer(s), idx + 1)
    ELSE ListenLoop(s, idx + 1)

Initialize ==
    /\ pc = "boot"
    /\ \E now \in Times :
         LET b == build_daytimes(args.daytimes, now)
             r == ListenLoop([Self(NoInput) EXCEPT !.active = b.active], 1)
         IN /\ ~r.over
            /\ active' = b.active
            /\ IF b.err
               THEN /\ pc' = "failed"
                    /\ last' = [Note("initialize", {}) EXCEPT !.err = TRUE, !.now = now,
                                                                !.raced = FALSE]
                    /\ UNCHANGED <<handle, timers>>
               ELSE /\ pc' = IF r.err THEN "failed" ELSE "run"
                    /\ handle' = r.handle
                    /\ timers' = r.timers
                    /\ last' = [Note("initialize", r.ops) EXCEPT !.err = r.err, !.now = now,
                                                                   !.raced = FALSE]
            /\ UNCHANGED <<args, tasks, light, motion>>

(***************************************************************************)
(* The callbacks                                                           *)
(***************************************************************************)
\* switch_daytime that also cancels the timer and clears the handle
SwitchDaytime_Cancels ==
    /\ pc = "run"
    /\ \E d \in 1..Len(args.daytimes) :
         active' = DaytimeDict(args.daytimes[d])
    /\ timers' = {}
    /\ handle' = NoHandle
    /\ last' = Note("switch_daytime", {})
    /\ UNCHANGED <<pc, args, tasks, light, motion>>

\* a daily callback of run_daily fires (each within 10 s before its start time)
SwitchDaytime ==
    /\ pc = "run"
    /\ \E d \in 1..Len(args.daytimes) :
         active' = DaytimeDict(args.daytimes[d])
    /\ last' = Note("switch_daytime", {})
    /\ UNCHANGED <<pc, args, handle, timers, tasks, light, motion>>

\* a xiaomi_aqara.motion event of one of the sensors
MotionEvent ==
    /\ pc = "run"
    /\ EventMode(args)
    /\ \E in \in Inputs(TRUE, ZeroSetting) : Commit("motion_event", motion_event(Self(in), "xiaomi_aqara.motion"))

\* a motion sensor changes to motion_state_on
MotionDetected ==
    /\ pc = "run"
    /\ StateMode(args)
    /\ \E sensor \in Range(MotionSensors), in \in Inputs(TRUE, ZeroSetting) :
         /\ motion[sensor] # args.motion_state_on
         /\ Commit("motion_detected",
                   motion_detected([Self(in) EXCEPT
                       !.motion[sensor] = args.motion_state_on]))

\* a motion sensor changes to motion_state_off
MotionCleared ==
    /\ pc = "run"
    /\ StateMode(args)
    /\ \E sensor \in Range(MotionSensors), in \in Inputs(FALSE, FALSE) :
         /\ motion[sensor] # args.motion_state_off
         /\ Commit("motion_cleared",
                   motion_cleared([Self(in) EXCEPT
                       !.motion[sensor] = args.motion_state_off]))

\* the scheduler fires a pending timer: it leaves the schedule and
\* lights_off runs; self._handle keeps the fired handle
TimerFire ==
    /\ pc = "run"
    /\ \E t \in timers, in \in Inputs(FALSE, TRUE) :
         Commit("lights_off",
                lights_off([Self(in) EXCEPT !.timers = timers \ {t}]))

(***************************************************************************)
(* The fade tasks and the user                                             *)
(***************************************************************************)
\* a task starts: it reads the brightness of its light and plans its commands
FadeBegin ==
    /\ \E task \in BagToSet(tasks) :
         LET brightness == IF light[task.entity] = 0 THEN Absent
                           ELSE light[task.entity]
             begun == [task EXCEPT !.started = TRUE,
                                   !.rem = FadeCommands(brightness, task.direction,
                                                        task.pct, task.duration)]
         IN /\ ~task.started
            /\ tasks' = (tasks (-) SetToBag({task})) (+) SetToBag({begun})
    /\ last' = Note("fade", {})
    /\ UNCHANGED <<pc, args, active, handle, timers, light, motion>>

\* a task issues its next command; after the last one it is finished
FadeCommand ==
    /\ \E task \in BagToSet(tasks) :
         LET r == SetBrightness(Self(NoInput), task.entity, Head(task.rem))
             rest == tasks (-) SetToBag({task})
         IN /\ task.started
            /\ light' = r.light
            /\ last' = Note("fade", r.ops)
            /\ tasks' = IF Len(task.rem) = 1 THEN rest
                        ELSE rest (+) SetToBag({[task EXCEPT !.rem = Tail(@)]})
    /\ UNCHANGED <<pc, args, active, handle, timers, motion>>

\* somebody switches a light by hand
UserSwitch ==
    /\ pc = "run"
    /\ \E l \in Range(Lights) :
         light' = [light EXCEPT ![l] = IF @ = 0 THEN FullBrightness ELSE 0]
    /\ last' = Note("user", {})
    /\ UNCHANGED <<pc, args, active, handle, timers, tasks, motion>>

(***************************************************************************)
(* The room: specification Spec                                            *)
(***************************************************************************)
Boot(a) ==
    /\ pc = "boot"
    /\ args = a
    /\ active = NoActive
    /\ handle = NoHandle
    /\ timers = {}
    /\ tasks = EmptyBag
    /\ light \in [Range(Lights) -> {0, FullBrightness}]
    /\ motion \in IF StateMode(a)
                  THEN [Range(MotionSensors) -> {a.motion_state_on, a.motion_state_off}]
                  ELSE [Range(MotionSensors) -> {"off"}]
    /\ last = NoStep

Init ==
    \E ms \in MotionStates :
        Boot(Args(ms, DefaultDaytimes, RoomThreshold, <<GuardRule>>))

Next ==
    \/ Initialize
    \/ SwitchDaytime
    \/ MotionEvent
    \/ MotionDetected
    \/ MotionCleared
    \/ TimerFire
    \/ FadeBegin
    \/ FadeCommand
    \/ UserSwitch

Spec == Init /\ [][Next]_vars

(***************************************************************************)
(* Start-up resolution alone: specification SpecBuild                      *)
(***************************************************************************)
\* a configured daytime that gives only its start time
Starting(t) == [name |-> "daytime", starttime |-> t, delay |-> Absent, light |-> AbsentSetting]

\* the daytime lists of up to MaxDaytimes entries
DaytimeLists ==
    UNION {[1..n -> {Starting(t) : t \in StartTimes}] : n \in 1..MaxDaytimes}

InitBuild ==
    \E ms \in MotionStates, daytimes \in DaytimeLists :
        Boot(Args(ms, daytimes, RoomThreshold, <<GuardRule>>))

NextBuild == Initialize

SpecBuild == InitBuild /\ [][NextBuild]_vars

(***************************************************************************)
(* One fade task alone: specification SpecFade                             *)
(***************************************************************************)
\* brightness of the light when the task starts (0: off, no brightness)
FadeBrightness == {0, 1, 64, 127, 128, 200, 254, 255}
\* fade durations: 0.2 s, 0.4 s, 1 s and the default
FadeDurations == {2, 4, 10, DEFAULT_FADE_DURATION}

InitFade ==
    /\ pc = "run"
    /\ args = Args([on |-> "on", off |-> "off"], DefaultDaytimes, RoomThreshold, <<GuardRule>>)
    /\ active = DaytimeDict(DefaultDaytimes[1])
    /\ handle = NoHandle
    /\ timers = {}
    /\ \E direction \in {"up", "down"}, pct \in 0..100, duration \in FadeDurations :
          tasks = SetToBag({[entity |-> Lights[1], direction |-> direction,
                             pct |-> pct, duration |-> duration,
                             started |-> FALSE, rem |-> <<>>]})
    /\ light \in [Range(Lights) -> FadeBrightness]
    /\ motion = [x \in Range(MotionSensors) |-> "off"]
    /\ last = NoStep

NextFade == FadeBegin \/ FadeCommand

SpecFade == InitFade /\ [][NextFade]_vars

(***************************************************************************)
(* Vocabulary of the properties                                            *)
(***************************************************************************)
\* the calls that command a light or launch a fade
LightOps == {"turn_on", "hue_activate_scene", "fade_up", "fade_down"}

\* the timer refresh_timer leaves under the active daytime: one timer of the
\* full delay that self._handle refers to, or none for a delay of 0
Refreshed(ts, h) ==
    IF active.delay # 0
    THEN ts = {[id |-> h, delay |-> active.delay]}
    ELSE ts = {}

\* the step l was an off-path that no disable rule stopped and in which some
\* humidity sensor read at or above the threshold
HumidityAtThreshold(l) ==
    \E x \in Range(HumiditySensors) :
        /\ l.seen.hum[x] # Unread
        /\ Float(l.seen.hum[x]) >= args.humidity_threshold

\* the step l reached the turn-on action and some illuminance sensor read at
\* or above the threshold
IlluminanceAtThreshold(l) ==
    \E x \in Range(IlluminanceSensors) :
        /\ l.seen.illum[x] # Unread
        /\ Float(l.seen.illum[x]) >= args.illuminance_threshold

SomeLightOn == \E l \in Range(Lights) : light[l] > 0

(***************************************************************************)
(* C1                                                                      *)
(***************************************************************************)
\* C1: in every reachable state at most one lights_off timer is pending, and
\* a pending timer is the one self._handle refers to (every run_in follows a
\* cancel_timer of the handle).
C1_AtMostOneTimer ==
    /\ Cardinality(timers) <= 1
    /\ \A t \in timers : t.id = handle

\* a motion event has replaced a pending timer by a new one
C1_Witness ==
    /\ last.h = "motion_event"
    /\ {"cancel_timer", "run_in"} \subseteq last.ops
    /\ Cardinality(timers) = 1
    /\ handle = 2

C3_NoTimerUnderDelayZero ==
    active.delay = 0 => "run_in" \notin last.ops

\* a motion event under delay 0 reached refresh_timer, which only cancelled
C3_Witness ==
    /\ pc = "run"
    /\ active.delay = 0
    /\ last.h = "motion_event"
    /\ ~last.disabled
    /\ "cancel_timer" \in last.ops
    /\ "run_in" \notin last.ops

(***************************************************************************)
(* C4                                                                      *)
(***************************************************************************)
\* what a handler that does nothing leaves alone
NothingDone ==
    /\ last'.ops = {}
    /\ handle' = handle
    /\ active' = active
    /\ tasks' = tasks
    /\ light' = light

\* C4 as claimed: when a disable rule fires at the time of a motion event, a
\* "detected", a "cleared" or a timer fire, the handler issues no command,
\* cancels and schedules no timer and leaves the handle and the active daytime.
C4_Original ==
    [][(last'.disabled /\ last'.h \in {"motion_event", "motion_detected",
                                       "motion_cleared", "lights_off"})
          => NothingDone /\ timers' \subseteq timers]_vars

\* C4 amended: when a disable rule fires, motion_event and the timer-fired
\* lights_off change nothing (the fired timer has left the schedule);
\* motion_detected has by then cancelled the timer of the handle and changes
\* nothing else.  motion_cleared does not consult the disable rules.
C4_VetoChangesNothing ==
    [][/\ (last'.disabled /\ last'.h = "motion_event")
            => NothingDone /\ timers' = timers
       /\ (last'.disabled /\ last'.h = "lights_off")
            => NothingDone /\ timers' \subseteq timers
       /\ (last'.disabled /\ last'.h = "motion_detected")
            => /\ last'.ops \subseteq {"cancel_timer"}
               /\ timers' = {t \in timers : t.id # handle}
               /\ handle' = handle /\ active' = active
               /\ tasks' = tasks /\ light' = light]_vars

\* the timer fired under a disable rule with a light on: nothing was done
C4_Witness ==
    /\ last.h = "lights_off"
    /\ last.disabled
    /\ last.ops = {}
    /\ SomeLightOn
    /\ tasks = EmptyBag

(***************************************************************************)
(* C5                                                                      *)
(***************************************************************************)
\* C5 as claimed: when lights_off runs past the disable rules, a humidity
\* sensor reads at or above the threshold and lights_off returns, no light
\* is commanded and exactly one timer is pending, whatever the active daytime.
C5_Original ==
    (HumidityAtThreshold(last) /\ ~last.err)
        => last.ops \cap LightOps = {} /\ Cardinality(timers) = 1

\* C5 amended: in that case no light is commanded.  If every humidity reading
\* parses, the timer is refreshed: one timer of the full delay is pending
\* under a non-zero delay, none under a delay of 0.  If another humidity
\* reading does not parse, lights_off raises before the refresh and no timer
\* is scheduled.
C5_HumidityRefreshes ==
    HumidityAtThreshold(last)
        => /\ last.ops \cap LightOps = {}
           /\ IF last.err THEN "run_in" \notin last.ops
              ELSE "cancel_timer" \in last.ops /\ Refreshed(timers, handle)

\* the timer fired with a light on and a humidity sensor at the threshold:
\* the light stays on and a new timer is pending
C5_Witness ==
    /\ last.h = "lights_off"
    /\ HumidityAtThreshold(last)
    /\ ~last.err
    /\ SomeLightOn
    /\ Cardinality(timers) = 1
    /\ "run_in" \in last.ops

(***************************************************************************)
(* C6                                                                      *)
(***************************************************************************)
\* no light is commanded, no fade is launched and the active daytime stays
DarkAndSame ==
    /\ last'.ops \cap LightOps = {}
    /\ tasks' = tasks
    /\ light' = light
    /\ active' = active

\* C6 as claimed: a motion event or "detected" that reaches the turn-on action
\* with an illuminance sensor at the threshold commands no light and leaves
\* the pending timers, the handle and the active daytime as they were.
C6_Original ==
    [][(last'.h \in {"motion_event", "motion_detected"} /\ IlluminanceAtThreshold(last'))
          => DarkAndSame /\ timers' = timers /\ handle' = handle]_vars

\* C6 amended: such an event commands no light, launches no fade and leaves
\* the lights and the active daytime as they were; the timer is handled as
\* for any motion: the discrete event refreshes it (one new timer of the full
\* delay, none under delay 0), "detected" has cancelled the timer of the handle.
C6_IlluminanceBlocksLights ==
    [][/\ (last'.h = "motion_event" /\ IlluminanceAtThreshold(last'))
            => DarkAndSame /\ Refreshed(timers', handle')
       /\ (last'.h = "motion_detected" /\ IlluminanceAtThreshold(last'))
            => DarkAndSame /\ timers' = {} /\ handle' = handle]_vars

\* a motion event in a room that is bright enough: the light stays off and
\* the timer runs
C6_Witness ==
    /\ last.h = "motion_event"
    /\ IlluminanceAtThreshold(last)
    /\ ~SomeLightOn
    /\ tasks = EmptyBag
    /\ Cardinality(timers) = 1

(***************************************************************************)
(* C7 (specification SpecBuild)                                            *)
(***************************************************************************)
DistinctStarts(daytimes) ==
    \A i, j \in 1..Len(daytimes) :
        i # j => daytimes[i].starttime # daytimes[j].starttime

\* the latest start time <= now, or the latest of all when now precedes them
ExpectedStart(daytimes, now) ==
    LET starts == {daytimes[i].starttime : i \in 1..Len(daytimes)}
        passed == {t \in starts : t <= now}
        from == IF passed # {} THEN passed ELSE starts
    IN CHOOSE t \in from : \A u \in from : u <= t

\* C7: for every daytime list with pairwise distinct start times and every
\* clock reading, build_daytimes leaves active the daytime whose start time is
\* the latest one <= now, or the latest of all when now precedes every start.
C7_ActiveIsLatestStart ==
    (last.h = "initialize" /\ DistinctStarts(args.daytimes))
        => active.starttime = ExpectedStart(args.daytimes, last.now)

(***************************************************************************)
(* C8 (specification SpecFade)                                             *)
(***************************************************************************)
\* round(pct * 255 / 100), halves to the even neighbour
RoundedTarget(pct) ==
    LET q == (pct * 255) \div 100
        r == (pct * 255) % 100
    IN IF r > 50 \/ (r = 50 /\ q % 2 = 1) THEN q + 1 ELSE q

\* the step in which the task issues its last command
LastCommand(task) ==
    /\ task.started
    /\ Len(task.rem) = 1
    /\ last'.h = "fade"
    /\ tasks' = tasks (-) SetToBag({task})

\* C8 as claimed: the last command of a fade sets the brightness to
\* round(targetPercent * 255 / 100).
C8_Original ==
    [][\A task \in BagToSet(tasks) :
          LastCommand(task) => light'[task.entity] = RoundedTarget(task.pct)]_vars

\* C8 amended: the last command of a fade sets the brightness to
\* targetPercent * 255 / 100 cut to an integer (int(), rounded down), whatever
\* the direction, the brightness at the start, the duration and the steps.
C8_LastCommandIsTarget ==
    [][\A task \in BagToSet(tasks) :
          LastCommand(task) => light'[task.entity] = (task.pct * 255) \div 100]_vars

\* a finished fade whose last command was 127: the target 50 % is 127.5
C8_Witness ==
    /\ tasks = EmptyBag
    /\ last.h = "fade"
    /\ "turn_on" \in last.ops
    /\ light[Lights[1]] = 127

(***************************************************************************)
(* C9                                                                      *)
(***************************************************************************)
\* C9 as claimed: while the delay of the active daytime is 0 and a light is
\* on, no timer is pending, also right after a daily switch to that daytime.
C9_Original ==
    (pc = "run" /\ active.delay = 0 /\ SomeLightOn) => timers = {}

\* C9 amended: while the delay of the active daytime is 0 no timer is
\* scheduled, so the pending timers can only go: a timer that is pending was
\* scheduled with the non-zero delay of an earlier daytime.  switch_daytime
\* does not cancel it; it stays pending with the light on and, when it fires,
\* lights_off launches the fade-down.
C9_DelayZeroOnlyLeftovers ==
    [][active'.delay = 0
          => /\ timers' \subseteq timers
             /\ \A t \in timers' : t.delay # 0]_vars

\* under the daytime of delay 0 the timer of an earlier daytime has fired and
\* launched the fade-down
C9_Witness ==
    /\ active.delay = 0
    /\ last.h = "lights_off"
    /\ "fade_down" \in last.ops
    /\ SomeLightOn
    /\ timers = {}

(***************************************************************************)
(* C10 (specification SpecLive)                                            *)
(***************************************************************************)
\* a room with on/off sensors, no disable rule and no humidity threshold;
\* the scheduler fires a timer that stays due, the event loop runs the tasks
InitLive ==
    Boot(Args([on |-> "on", off |-> "off"], DefaultDaytimes, 0, <<>>))

NextLive ==
    \/ Initialize
    \/ SwitchDaytime
    \/ MotionDetected
    \/ MotionCleared
    \/ TimerFire
    \/ FadeBegin
    \/ FadeCommand
    \/ UserSwitch

SpecLive ==
    /\ InitLive
    /\ [][NextLive]_vars
    /\ WF_vars(TimerFire)
    /\ WF_vars(FadeBegin)
    /\ WF_vars(FadeCommand)

AllMotionOff ==
    \A sensor \in Range(MotionSensors) : motion[sensor] = args.motion_state_off

\* "cleared" was handled with every sensor off, under a non-zero delay and a
\* brightness of 1..100
ClearedAllOff ==
    /\ last.h = "motion_cleared"
    /\ AllMotionOff
    /\ active.delay > 0
    /\ active.light_setting.kind = "int"
    /\ active.light_setting.val \in 1..100

\* the timer has fired: none is pending, and if a light is on a fade-down to
\* 0 % of the off-fade duration was launched for every light
FiredAndFading ==
    /\ last.h = "lights_off"
    /\ timers = {}
    /\ SomeLightOn =>
          /\ "fade_down" \in last.ops
          /\ \A l \in Range(Lights) :
                BagIn([entity |-> l, direction |-> "down", pct |-> 0,
                       duration |-> args.fade_off, started |-> FALSE,
                       rem |-> <<>>], tasks)

\* C10: once "cleared" is handled with every motion sensor off (delay > 0,
\* brightness 1..100, no disable rule, no humidity threshold), either a
\* further motion arrives or the timer eventually fires and lights_off
\* launches the fade-down for every light if a light is on, with no timer left.
C10_AutoOffHappens ==
    ClearedAllOff ~> (FiredAndFading \/ last.h = "motion_detected")

\* the timer started by "cleared" has fired and launched the fade-down
C10_Witness ==
    /\ FiredAndFading
    /\ SomeLightOn
    /\ AllMotionOff
    /\ args.humidity_threshold = 0

(***************************************************************************)
(* C11 (specification SpecVeto)                                            *)
(***************************************************************************)
\* lines of disable_switch_entity, split: "switch.guard, on",
\* "switch.guard, off", "switch.guard, on; mode, away",
\* "switch.guard, on; mode, None", "switch.guard, on; mode, away; level, high"
RuleLines ==
    {GuardRule,
     [entity |-> "switch.guard", state |-> "off", atts |-> <<>>],
     [entity |-> "switch.guard", state |-> "on",
      atts |-> <<[att |-> "mode", val |-> "away"]>>],
     [entity |-> "switch.guard", state |-> "on",
      atts |-> <<[att |-> "mode", val |-> "None"]>>],
     [entity |-> "switch.guard", state |-> "on",
      atts |-> <<[att |-> "mode", val |-> "away"], [att |-> "level", val |-> "high"]>>]}

\* the lists of 0 to MaxRules disable rules
RuleLists == UNION {[1..n -> RuleLines] : n \in 0..MaxRules}

\* a room of sensors that send events and without thresholds, under each
\* list of rules
InitVeto ==
    \E rules \in RuleLists :
        Boot([Args([on |-> PyNone, off |-> PyNone], DefaultDaytimes, 0, rules)
                 EXCEPT !.illuminance_threshold = 0])

NextVeto ==
    \/ Initialize
    \/ MotionEvent
    \/ TimerFire

SpecVeto == InitVeto /\ [][NextVeto]_vars

\* the condition i of the rule matches what was read of the entity
ConditionMatches(rule, i, ent) ==
    LET c == rule.atts[i]
    IN IF c.att \in DOMAIN ent.attr THEN ent.attr[c.att] = c.val
       ELSE c.val = "None"

\* the rule fires on the entities read by the handler
RuleFires(rule, ents) ==
    /\ ents[rule.entity].state = rule.state
    /\ \/ rule.atts = <<>>
       \/ \E i \in 1..Len(rule.atts) : ConditionMatches(rule, i, ents[rule.entity])

\* C11: a motion event and a timer-fired lights_off are vetoed
\* exactly when at least one configured rule fires; a rule fires exactly when
\* the state of its entity is the expected one and it has no attribute
\* condition or one of them matches (a missing attribute matches "None").
\* A vetoed handler commands no light and schedules no timer; so a rule with
\* no attribute condition vetoes both paths whenever the state matches.
C11_VetoIffRuleFires ==
    last.h \in {"motion_event", "lights_off"}
        => /\ last.vetoed <=>
                \E i \in 1..Len(args.disable_switch_entity) :
                    RuleFires(args.disable_switch_entity[i], last.ents)
           /\ last.vetoed => last.ops \cap (LightOps \cup {"run_in"}) = {}

\* the timer fired while "switch.guard, on; mode, None" held with the
\* attribute missing: lights_off was vetoed
C11_Witness ==
    /\ last.h = "lights_off"
    /\ last.vetoed
    /\ Len(args.disable_switch_entity) = 1
    /\ args.disable_switch_entity[1].atts = <<[att |-> "mode", val |-> "None"]>>
    /\ last.ents["switch.guard"].attr = <<>>
    /\ SomeLightOn

(***************************************************************************)
(* C12                                                                     *)
(***************************************************************************)
\* the places in the configured order of the humidity sensors that the step
\* l read at or above the threshold
BlockingPlaces(l) ==
    {i \in 1..Len(HumiditySensors) :
        /\ l.seen.hum[HumiditySensors[i]] # Unread
        /\ Float(l.seen.hum[HumiditySensors[i]]) >= args.humidity_threshold}

\* C12 as claimed: when lights_off finds humidity sensors at or above the
\* threshold, the blocker it selects is the first of them in the configured
\* order.
C12_Original ==
    (BlockingPlaces(last) # {} /\ ~last.err)
        => \E i \in BlockingPlaces(last) :
              /\ last.blocker = HumiditySensors[i]
              /\ \A j \in BlockingPlaces(last) : i <= j

\* C12 amended: the blocker lights_off selects (blocker.pop()) is the last of
\* the sensors at or above the threshold in the configured order.
C12_BlockerIsLast ==
    (BlockingPlaces(last) # {} /\ ~last.err)
        => \E i \in BlockingPlaces(last) :
              /\ last.blocker = HumiditySensors[i]
              /\ \A j \in BlockingPlaces(last) : j <= i

\* the timer fired with both humidity sensors at the threshold
C12_Witness ==
    /\ last.h = "lights_off"
    /\ ~last.err
    /\ Cardinality(BlockingPlaces(last)) = 2
    /\ last.blocker = HumiditySensors[2]

(***************************************************************************)
(* C13                                                                     *)
(***************************************************************************)
\* the step l read a humidity sensor whose state is no number
HumidityUnparsable(l) ==
    \E x \in Range(HumiditySensors) :
        /\ l.seen.hum[x] # Unread
        /\ Float(l.seen.hum[x]) = ValueError

\* C13: a humidity reading that is no number counts as a reading below the
\* threshold: the timer-fired lights_off does not raise; if no other sensor
\* blocks it cancels the timer and, if a light is on, launches the fade-down,
\* so the lights are not left on without a timer.
C13_UnparsableIsNoMatch ==
    (last.h = "lights_off" /\ ~last.disabled /\ HumidityUnparsable(last))
        => /\ ~last.err
           /\ BlockingPlaces(last) = {}
                => /\ "cancel_timer" \in last.ops
                   /\ SomeLightOn => "fade_down" \in last.ops

(***************************************************************************)
(* C14                                                                     *)
(***************************************************************************)
\* C14: after every motion event that no disable rule stops, whether it ran
\* lights_on or found a light on, the timer is refreshed: the earlier timer is
\* cancelled and, under a non-zero delay, exactly one timer of the full delay
\* is pending (none under a delay of 0).
C14_EventRefreshesTimer ==
    (last.h = "motion_event" /\ ~last.disabled)
        => "cancel_timer" \in last.ops /\ Refreshed(timers, handle)

(***************************************************************************)
(* C15                                                                     *)
(***************************************************************************)
\* C15: after a "cleared" state change, if every motion sensor reads the off
\* state the timer is refreshed (one timer of the full delay under a non-zero
\* delay); if some sensor does not, no timer is pending: a pending one is
\* cancelled and none is scheduled.
C15_ClearedStartsOrCancels ==
    last.h = "motion_cleared"
        => IF AllMotionOff
           THEN "cancel_timer" \in last.ops /\ Refreshed(timers, handle)
           ELSE timers = {} /\ "run_in" \notin last.ops

\* the last sensor has cleared under a non-zero delay: the timer runs
C15_Witness ==
    /\ last.h = "motion_cleared"
    /\ AllMotionOff
    /\ active.delay # 0
    /\ "run_in" \in last.ops
    /\ timers = {[id |-> handle, delay |-> active.delay]}

(***************************************************************************)
(* C16 (specification SpecRace)                                            *)
(***************************************************************************)
\* fade_on of 0.4 seconds: two steps of 0.2 seconds
RaceFade == 4

\* a room of sensors that send events, without thresholds and disable rules,
\* with the daytimes "morning" and "night", whose fade-up takes two steps
InitRace ==
    Boot([Args([on |-> PyNone, off |-> PyNone],
               <<DefaultDaytimes[1], DefaultDaytimes[4]>>, 0, <<>>)
             EXCEPT !.illuminance_threshold = 0, !.fade_on = RaceFade])

NextRace ==
    \/ Initialize
    \/ MotionEvent
    \/ TimerFire
    \/ FadeBegin
    \/ FadeCommand

SpecRace == InitRace /\ [][NextRace]_vars

\* the task issues its next command in this step
Commands(task) ==
    /\ task.started
    /\ tasks' = IF Len(task.rem) = 1 THEN tasks (-) SetToBag({task})
                ELSE (tasks (-) SetToBag({task}))
                         (+) SetToBag({[task EXCEPT !.rem = Tail(@)]})

\* C16: fade tasks of one light are neither serialised nor cancelled.  A
\* handler leaves the tasks in flight as they are and only adds its own
\* (lights_off itself writes no brightness); a
\* command of a fade sets the light to the value of that command, whatever
\* the other tasks have written, so the brightness is that of the command
\* issued last.  (The witness is the state the claim describes: lights_off
\* launched its fade-down over a fade-up in flight, no handler ran since, all
\* tasks are finished and the light is at the target of the fade-up.)
C16_LastWriteWins ==
    [][/\ last'.h \in {"motion_event", "lights_off"} => tasks \sqsubseteq tasks'
       /\ last'.h = "lights_off" => light' = light
       /\ (last'.h = "fade" /\ "turn_on" \in last'.ops)
            => \E task \in BagToSet(tasks) :
                  /\ Commands(task)
                  /\ light' = [light EXCEPT ![task.entity] = Head(task.rem)]]_vars

\* lights_off has launched the fade-down while the fade-up to 100 % was in
\* flight, no handler ran since, every task is finished and the light is on
\* at full brightness with no timer pending
C16_Witness ==
    /\ last.raced
    /\ last.h = "fade"
    /\ tasks = EmptyBag
    /\ timers = {}
    /\ active.light_setting = IntSetting(100)
    /\ light[Lights[1]] = FullBrightness

(***************************************************************************)
(* C17 (specification SpecHumid)                                           *)
(***************************************************************************)
\* a room of sensors that send events in which no motion arrives after the
\* start: the timer initialize has started fires, and every timer that
\* lights_off starts fires in its turn
InitHumid ==
    Boot(Args([on |-> PyNone, off |-> PyNone], DefaultDaytimes, RoomThreshold,
              <<GuardRule>>))

NextHumid ==
    \/ Initialize
    \/ SwitchDaytime
    \/ TimerFire
    \/ FadeBegin
    \/ FadeCommand

SpecHumid ==
    /\ InitHumid
    /\ [][NextHumid]_vars
    /\ WF_vars(TimerFire)

\* lights_off found a humidity sensor at the threshold and returned
HumidityBlocked == last.h = "lights_off" /\ last.blocker # PyNone

\* lights_off read every humidity sensor below the threshold
HumidityAllBelow ==
    /\ last.h = "lights_off"
    /\ ~last.disabled
    /\ \A x \in Range(HumiditySensors) :
          /\ last.seen.hum[x] # Unread
          /\ Float(last.seen.hum[x]) # ValueError
          /\ Float(last.seen.hum[x]) < args.humidity_threshold

\* C17 as claimed: a humidity-blocked lights_off never leaves a light on with
\* no timer pending.
C17_Original ==
    (HumidityBlocked /\ SomeLightOn) => timers # {}

\* C17 amended: a humidity-blocked lights_off commands no light and refreshes
\* the timer; under a non-zero delay one timer of the full delay is pending
\* and, with no motion in between, it fires and lights_off runs again (the
\* re-check on the delay cadence).  A timer fire that no disable rule stops
\* and that reads every humidity sensor below the threshold launches the
\* fade-down for every light if a light is on and leaves no timer.  Under a
\* delay of 0 the blocked lights_off schedules nothing, and a timer fire that
\* reads a humidity state that is no number raises and schedules nothing: in
\* both cases a light that is on stays on with no timer.
C17_HumidityRechecks ==
    /\ []((last.h = "lights_off" /\ last.err)
            => last.ops = {} /\ timers = {})
    /\ [](HumidityBlocked
            => last.ops \cap LightOps = {} /\ Refreshed(timers, handle))
    /\ []((HumidityAllBelow /\ SomeLightOn)
            => /\ timers = {}
               /\ \A l \in Range(Lights) :
                     BagIn([entity |-> l, direction |-> "down", pct |-> 0,
                            duration |-> args.fade_off, started |-> FALSE,
                            rem |-> <<>>], tasks))
    /\ \A k \in 1..MaxTimers :
          (HumidityBlocked /\ active.delay # 0 /\ handle = k)
              ~> (last.h = "lights_off" /\ k \notin TimerIds(timers))

\* the timer started by a humidity-blocked lights_off (handle 1: initialize
\* leaves handle 2) has fired with every reading below the threshold and
\* launched the fade-down
C17_Witness ==
    /\ HumidityAllBelow
    /\ SomeLightOn
    /\ "fade_down" \in last.ops
    /\ handle = 1
    /\ timers = {}

(***************************************************************************)
(* C18                                                                     *)
(***************************************************************************)
\* what a run of lights_on or lights_off that ended in r has done
Effect(r) ==
    [ops |-> r.ops, timers |-> r.timers, handle |-> r.handle,
     tasks |-> r.tasks, light |-> r.light, vetoed |-> r.vetoed,
     err |-> r.err, over |-> r.over]

\* the illuminance readings let lights_on go on: there is no threshold, or
\* every reading is a number below it
IlluminancePasses(in) ==
    \/ args.illuminance_threshold = 0
    \/ \A x \in Range(IlluminanceSensors) :
          /\ Float(in.illum[x]) # ValueError
          /\ Float(in.illum[x]) < args.illuminance_threshold

\* C18 as claimed: under an integer light setting of 0, lights_on does what
\* lights_off does from the same state, for all light states, disable
\* rules, humidity readings and illuminance readings.
C18_Original ==
    (pc = "run" /\ ZeroSetting)
        => \A in \in Inputs(TRUE, TRUE) :
              Effect(lights_on(Self(in))) = Effect(lights_off(Self(in)))

\* C18 amended: under an integer light setting of 0, lights_on does what
\* lights_off does from the same state if the illuminance readings let it go
\* on; if an illuminance reading is at or above the threshold or is no
\* number, lights_on returns and does nothing.
C18_ZeroIsLightsOff ==
    (pc = "run" /\ ZeroSetting)
        => \A in \in Inputs(TRUE, TRUE) :
              Effect(lights_on(Self(in))) =
                  IF IlluminancePasses(in) THEN Effect(lights_off(Self(in)))
                  ELSE Effect(Self(in))

\* a motion event under the light setting 0 in a room that is dark enough:
\* lights_on ran lights_off, which read the humidity sensors
C18_Witness ==
    /\ last.h = "motion_event"
    /\ ZeroSetting
    /\ ~last.disabled
    /\ IlluminancePasses(last.seen)
    /\ \A x \in Range(HumiditySensors) : last.seen.hum[x] # Unread
    /\ "cancel_timer" \in last.ops

(***************************************************************************)
(* C19 (specification SpecFade)                                            *)
(***************************************************************************)
\* C19: a fade takes no longer than its duration: the commands of the loop,
\* each followed by a pause of adjFrequency, are at most duration /
\* adjFrequency (the last command of the task comes after the loop).
C19_StepsWithinDuration ==
    \A task \in BagToSet(tasks) :
        task.started => (Len(task.rem) - 1) * adjFrequency <= task.duration

(***************************************************************************)
(* C20                                                                     *)
(***************************************************************************)
\* the three states of the room
IDLE == ~SomeLightOn /\ timers = {}
ACTIVE_NO_TIMER == SomeLightOn /\ active.delay = 0 /\ timers = {}
ACTIVE_TIMED == SomeLightOn /\ active.delay # 0 /\ timers # {}

\* C20 as claimed: between the handlers the room is IDLE, ACTIVE_NO_TIMER or
\* ACTIVE_TIMED: never all lights off with a timer pending, never a light on
\* under a non-zero delay with no timer.
C20_Original ==
    pc = "run" => IDLE \/ ACTIVE_NO_TIMER \/ ACTIVE_TIMED

\* C20 amended: the lights and the timer are not tied in that way (initialize
\* with event sensors starts the timer with the lights off; "detected" and a
\* vetoed timer fire leave a light on with no timer).  What holds between the
\* handlers: at most one timer is pending, it is the one of self._handle and
\* it was scheduled with a non-zero delay; a timer is pending after a motion
\* event that returned under a non-zero delay, none after a lights_off that
\* was neither vetoed nor blocked by humidity.
C20_TimerStates ==
    /\ Cardinality(timers) <= 1
    /\ \A t \in timers : t.id = handle /\ t.delay # 0
    /\ (last.h = "motion_event" /\ ~last.disabled /\ ~last.err /\ active.delay # 0)
          => timers # {}
    /\ (last.h = "lights_off" /\ ~last.disabled /\ ~last.err /\ last.blocker = PyNone)
          => timers = {}

\* right after initialize with event sensors: every light off, the timer runs
C20_Witness ==
    /\ pc = "run"
    /\ last.h = "initialize"
    /\ ~SomeLightOn
    /\ timers # {}
    /\ tasks = EmptyBag

(***************************************************************************)
(* C21                                                                     *)
(***************************************************************************)
\* the handlers that reach refresh_timer
TimerHandlers ==
    {"initialize", "motion_event", "motion_detected", "motion_cleared",
     "lights_off"}

\* C21: a step of a fade task leaves self._handle, self.active and the
\* pending timers as they are and calls nothing but turn_on; switch_daytime
\* writes only self.active: the handle, the pending timers, the lights and
\* the fade tasks stay and no service is called; self._handle changes only
\* in a motion, cleared, timer or initialize handler that has called run_in
\* (refresh_timer).
C21_SingleWriter ==
    [][/\ last'.h = "fade"
            => /\ handle' = handle
               /\ active' = active
               /\ timers' = timers
               /\ last'.ops \subseteq {"turn_on"}
       /\ last'.h = "switch_daytime"
            => /\ handle' = handle
               /\ timers' = timers
               /\ light' = light
               /\ tasks' = tasks
               /\ last'.ops = {}
       /\ handle' # handle
            => last'.h \in TimerHandlers /\ "run_in" \in last'.ops]_vars

\* a daily switch to the daytime of delay 0 with the timer of the earlier
\* daytime pending and a fade task in flight: both are as they were
C21_Witness ==
    /\ last.h = "switch_daytime"
    /\ active.delay = 0
    /\ timers = {[id |-> handle, delay |-> DEFAULT_DELAY]}
    /\ tasks # EmptyBag

(***************************************************************************)
(* C22                                                                     *)
(***************************************************************************)
\* C22 as claimed: self._handle is set exactly when a timer is pending.
C22_Original ==
    handle # NoHandle <=> timers # {}

\* C22 amended: a pending timer is the one self._handle refers to, so the
\* handle is set whenever a timer is pending; the converse does not hold:
\* once set the handle is never cleared, and after the timer has fired, after
\* a cancel_timer by "detected", "cleared" or lights_off and after a refresh
\* under a delay of 0 it still refers to the fired or cancelled timer.
C22_HandleOutlivesTimer ==
    /\ [](timers # {} => handle # NoHandle /\ TimerIds(timers) = {handle})
    /\ [][handle # NoHandle => handle' # NoHandle]_vars
    /\ [][(last'.h \in {"lights_off", "motion_detected", "motion_cleared"}
             /\ "run_in" \notin last'.ops)
            => handle' = handle]_vars

\* the timer has fired under a non-zero delay and lights_off has launched the
\* fade-down: no timer is pending and the handle is that of the fired timer
C22_Witness ==
    /\ last.h = "lights_off"
    /\ "fade_down" \in last.ops
    /\ active.delay # 0
    /\ timers = {}
    /\ handle # NoHandle

====
